---- MODULE Spec2Model ----
(***************************************************************************)
(* A model of two programs of the repository:                              *)
(*   Project2/heredity/heredity.py  - exact inference over a pedigree      *)
(*   Project0/tictactoe/tictactoe.py - the tic-tac-toe player              *)
(*                                                                         *)
(* Probabilities are modelled as exact rationals num/den whose numerator   *)
(* and denominator are unbounded naturals (little-endian sequences of      *)
(* limbs), so products of many factors of 1/100 lose nothing.  Python's    *)
(* floats round; every statement below is about the exact value.           *)
(***************************************************************************)
EXTENDS Integers, Sequences, FiniteSets, TLC

VARIABLES people, rev, probabilities, pc, ti, oi, wi, calls, accumulated,
          one_gene, two_genes, have_trait, probability,
          pending, hyps0, board

vars == <<people, rev, probabilities, pc, ti, oi, wi, calls, accumulated,
          one_gene, two_genes, have_trait, probability,
          pending, hyps0, board>>

(***************************************************************************)
(* Bounds of the model.                                                    *)
(***************************************************************************)
\* Largest population whose whole inference run is explored.
MaxPeople == 3
\* Largest population explored with malformed parent fields.
MaxMalformed == 2
\* Largest number of hypotheses accumulated in an arbitrary order.
MaxHyps == 2

(***************************************************************************)
(* Unbounded naturals: <<>> is 0, limbs are base Base, least limb first,   *)
(* no zero limb at the top.                                                *)
(***************************************************************************)
Base == 100 * 100

RECURSIVE BigFromNat(_)
BigFromNat(n) ==
    IF n = 0 THEN <<>> ELSE <<n % Base>> \o BigFromNat(n \div Base)

RECURSIVE AddCarry(_, _, _)
AddCarry(x, y, c) ==
    IF x = <<>> /\ y = <<>>
    THEN BigFromNat(c)
    ELSE LET a == IF x = <<>> THEN 0 ELSE Head(x)
             b == IF y = <<>> THEN 0 ELSE Head(y)
             s == a + b + c
         IN  <<s % Base>> \o AddCarry(IF x = <<>> THEN <<>> ELSE Tail(x),
                                      IF y = <<>> THEN <<>> ELSE Tail(y),
                                      s \div Base)

BigAdd(x, y) == AddCarry(x, y, 0)

RECURSIVE StripZeros(_)
StripZeros(x) ==
    IF x = <<>> THEN <<>>
    ELSE IF x[Len(x)] = 0 THEN StripZeros(SubSeq(x, 1, Len(x) - 1))
    ELSE x

\* x - y for x >= y, limb by limb with a borrow.
RECURSIVE SubBorrow(_, _, _)
SubBorrow(x, y, c) ==
    IF x = <<>> THEN <<>>
    ELSE LET b == IF y = <<>> THEN 0 ELSE Head(y)
             d == Head(x) - b - c
         IN  <<IF d < 0 THEN d + Base ELSE d>>
             \o SubBorrow(Tail(x), IF y = <<>> THEN <<>> ELSE Tail(y),
                          IF d < 0 THEN 1 ELSE 0)

BigSub(x, y) == StripZeros(SubBorrow(x, y, 0))

RECURSIVE MulSmallCarry(_, _, _)
MulSmallCarry(x, k, c) ==
    IF x = <<>> THEN BigFromNat(c)
    ELSE LET s == Head(x) * k + c
         IN  <<s % Base>> \o MulSmallCarry(Tail(x), k, s \div Base)

\* x * k for one limb k.
BigMulSmall(x, k) == IF k = 0 \/ x = <<>> THEN <<>> ELSE MulSmallCarry(x, k, 0)

RECURSIVE BigMul(_, _)
BigMul(x, y) ==
    IF y = <<>> \/ x = <<>> THEN <<>>
    ELSE LET rest == BigMul(x, Tail(y))
         IN  BigAdd(BigMulSmall(x, Head(y)),
                    IF rest = <<>> THEN <<>> ELSE <<0>> \o rest)

RECURSIVE BigLessFrom(_, _, _)
BigLessFrom(x, y, k) ==
    IF k = 0 THEN FALSE
    ELSE IF x[k] # y[k] THEN x[k] < y[k]
    ELSE BigLessFrom(x, y, k - 1)

\* x < y: the shorter is the smaller, else the topmost differing limb decides.
BigLess(x, y) ==
    IF Len(x) # Len(y) THEN Len(x) < Len(y) ELSE BigLessFrom(x, y, Len(x))

(***************************************************************************)
(* Exact rationals over the naturals above.                                *)
(***************************************************************************)
Rat(n, d) == [num |-> BigFromNat(n), den |-> BigFromNat(d)]

Zero == Rat(0, 1)
One == Rat(1, 1)

RatEq(a, b) == BigMul(a.num, b.den) = BigMul(b.num, a.den)

RatLess(a, b) == BigLess(BigMul(a.num, b.den), BigMul(b.num, a.den))

RatIsZero(a) == a.num = <<>>

RatAdd(a, b) ==
    IF a.den = b.den
    THEN [num |-> BigAdd(a.num, b.num), den |-> a.den]
    ELSE [num |-> BigAdd(BigMul(a.num, b.den), BigMul(b.num, a.den)),
          den |-> BigMul(a.den, b.den)]

\* a - b, for a >= b.
RatSub(a, b) ==
    IF a.den = b.den
    THEN [num |-> BigSub(a.num, b.num), den |-> a.den]
    ELSE [num |-> BigSub(BigMul(a.num, b.den), BigMul(b.num, a.den)),
          den |-> BigMul(a.den, b.den)]

RatMul(a, b) == [num |-> BigMul(a.num, b.num), den |-> BigMul(a.den, b.den)]

\* a / b, for b # 0.
RatDiv(a, b) ==
    IF a.den = b.den
    THEN [num |-> a.num, den |-> b.num]
    ELSE [num |-> BigMul(a.num, b.den), den |-> BigMul(a.den, b.num)]

\* A decimal literal with two places, 0.96 as Percent(96).
Percent(k) == Rat(k, 100)

(***************************************************************************)
(* heredity.py: the model parameters.                                      *)
(***************************************************************************)
PROBS ==
    [gene     |-> [g \in {0, 1, 2} |->
                      IF g = 2 THEN Percent(1)
                      ELSE IF g = 1 THEN Percent(3) ELSE Percent(96)],
     trait    |-> [g \in {0, 1, 2} |-> [t \in BOOLEAN |->
                      IF g = 2 THEN (IF t THEN Percent(65) ELSE Percent(35))
                      ELSE IF g = 1 THEN (IF t THEN Percent(56) ELSE Percent(44))
                      ELSE (IF t THEN Percent(1) ELSE Percent(99))]],
     mutation |-> Percent(1)]

\* A blank mother or father field.
None == 0

\* The trait column: "1", "0" or blank.
Traits == {"True", "False", "None"}

names(ppl) == DOMAIN ppl

(***************************************************************************)
(* heredity.py: joint_probability.                                         *)
(***************************************************************************)
\* 1 if person in one_gene else 2 if person in two_genes else 0
GeneNumber(person, og, tg) ==
    IF person \in og THEN 1 ELSE IF person \in tg THEN 2 ELSE 0

\* Perc without the mutation rate: a parent passes on exactly what it has.
PercNoMutation(number) ==
    IF number = 0 THEN Zero
    ELSE IF number = 1 THEN Percent(50)
    ELSE One

\* The probability that a parent with `number` copies passes the gene on.
Perc(number) ==
    IF number = 0 THEN PROBS.mutation
    ELSE IF number = 1 THEN Percent(50)
    ELSE RatSub(One, PROBS.mutation)

\* ChildGeneProb counting only one of the two ways to inherit one copy.
ChildGeneProbOneWay(gene_number, pm, pf) ==
    IF gene_number = 0
    THEN RatMul(RatSub(One, pm), RatSub(One, pf))
    ELSE IF gene_number = 1
    THEN RatMul(RatSub(One, pm), pf)
    ELSE RatMul(pm, pf)

\* The probability of gene_number copies given the parents' percentages.
ChildGeneProb(gene_number, pm, pf) ==
    IF gene_number = 0
    THEN RatMul(RatSub(One, pm), RatSub(One, pf))
    ELSE IF gene_number = 1
    THEN RatAdd(RatMul(RatSub(One, pm), pf), RatMul(pm, RatSub(One, pf)))
    ELSE RatMul(pm, pf)

\* JointStep leaving the trait out of a founder's factor.
JointStepGeneOnly(ppl, og, tg, ht, person, prob) ==
    LET gene_number == GeneNumber(person, og, tg)
        trait_prop  == PROBS.trait[gene_number][(person \in ht)]
    IN  IF ppl[person].mother = None
        THEN RatMul(prob, PROBS.gene[gene_number])
        ELSE RatMul(RatMul(prob,
                           ChildGeneProb(gene_number,
                                         Perc(GeneNumber(ppl[person].mother, og, tg)),
                                         Perc(GeneNumber(ppl[person].father, og, tg)))),
                    trait_prop)

\* JointStep taking everybody for a founder.
JointStepAllFounders(ppl, og, tg, ht, person, prob) ==
    LET gene_number == GeneNumber(person, og, tg)
    IN  RatMul(prob, RatMul(PROBS.gene[gene_number],
                            PROBS.trait[gene_number][(person \in ht)]))

\* One iteration of the loop over people: `prob` times the person's factor.
JointStep(ppl, og, tg, ht, person, prob) ==
    LET gene_number    == GeneNumber(person, og, tg)
        trait          == person \in ht
        gene_numb_prop == PROBS.gene[gene_number]
        trait_prop     == PROBS.trait[gene_number][trait]
    IN  IF ppl[person].mother = None
        THEN RatMul(prob, RatMul(gene_numb_prop, trait_prop))
        ELSE LET mother == ppl[person].mother
                 father == ppl[person].father
                 pm     == Perc(GeneNumber(mother, og, tg))
                 pf     == Perc(GeneNumber(father, og, tg))
             IN  RatMul(RatMul(prob, ChildGeneProb(gene_number, pm, pf)),
                        trait_prop)

RECURSIVE JointFrom(_, _, _, _, _, _)
JointFrom(ppl, og, tg, ht, person, prob) ==
    IF person \notin DOMAIN ppl THEN prob
    ELSE JointFrom(ppl, og, tg, ht, person + 1,
                   JointStep(ppl, og, tg, ht, person, prob))

joint_probability(ppl, og, tg, ht) == JointFrom(ppl, og, tg, ht, 1, One)

(***************************************************************************)
(* heredity.py: powerset.  list(s) is some order of the set; the model     *)
(* explores the ascending and the descending one.                          *)
(***************************************************************************)
Max(s) == CHOOSE x \in s : \A y \in s : y <= x
Min(s) == CHOOSE x \in s : \A y \in s : x <= y

RECURSIVE ListOf(_, _)
ListOf(s, r) ==
    IF s = {} THEN <<>>
    ELSE LET x == IF r THEN Max(s) ELSE Min(s)
         IN  <<x>> \o ListOf(s \ {x}, r)

\* itertools.combinations(l, r), each tuple already turned into a set.
RECURSIVE combinations(_, _)
combinations(l, r) ==
    IF r = 0 THEN << {} >>
    ELSE IF Len(l) < r THEN <<>>
    ELSE LET with == combinations(Tail(l), r - 1)
         IN  [i \in 1..Len(with) |-> {Head(l)} \cup with[i]]
             \o combinations(Tail(l), r)

\* chain.from_iterable(combinations(s, r) for r in range(upto + 1)), from r on.
RECURSIVE ChainFrom(_, _, _)
ChainFrom(l, r, upto) ==
    IF r > upto THEN <<>>
    ELSE combinations(l, r) \o ChainFrom(l, r + 1, upto)

\* powerset with range(len(s)) for range(len(s) + 1): the whole set is missing.
powersetProper(s, r) == LET l == ListOf(s, r) IN ChainFrom(l, 0, Len(l) - 1)

powerset(s, r) == LET l == ListOf(s, r) IN ChainFrom(l, 0, Len(l))

(***************************************************************************)
(* heredity.py: update and normalize.                                      *)
(***************************************************************************)
\* main's initial table: every bucket the integer 0.
ZeroTable(ppl) ==
    [person \in DOMAIN ppl |->
        [gene |-> [g \in {0, 1, 2} |-> Zero], trait |-> [t \in BOOLEAN |-> Zero]]]

\* update with = for +=.
updateOverwrite(probs, og, tg, ht, p) ==
    [person \in DOMAIN probs |->
        LET gene_number == GeneNumber(person, og, tg)
        IN  [gene  |-> [probs[person].gene EXCEPT ![gene_number] = p],
             trait |-> [probs[person].trait EXCEPT ![person \in ht] = p]]]

update(probs, og, tg, ht, p) ==
    [person \in DOMAIN probs |->
        LET gene_number == GeneNumber(person, og, tg)
        IN  [gene  |-> [probs[person].gene EXCEPT
                           ![gene_number] = RatAdd(@, p)],
             trait |-> [probs[person].trait EXCEPT
                           ![person \in ht] = RatAdd(@, p)]]]

\* sum(probabilities[person][typ].values()), in the dictionaries' key order.
SumGene(d) == RatAdd(RatAdd(RatAdd(Zero, d[2]), d[1]), d[0])
SumTrait(d) == RatAdd(RatAdd(Zero, d[TRUE]), d[FALSE])

\* NormalizeDist on a deep copy: the table main prints keeps its values.
NormalizeDistOnCopy(d, summed) == d

\* The inner loops for one distribution: every value over the sum taken
\* before the first of them is replaced.
NormalizeDist(d, summed) == [c \in DOMAIN d |-> RatDiv(d[c], summed)]

\* normalize works in place (the copy is shallow) and raises ZeroDivisionError
\* at the first distribution whose sum is 0, leaving the earlier ones done.
RECURSIVE NormalizeFrom(_, _)
NormalizeFrom(probs, person) ==
    IF person \notin DOMAIN probs THEN [probs |-> probs, raised |-> FALSE]
    ELSE LET sg == SumGene(probs[person].gene)
             st == SumTrait(probs[person].trait)
         IN  IF RatIsZero(sg) THEN [probs |-> probs, raised |-> TRUE]
             ELSE LET g == [probs EXCEPT
                              ![person].gene = NormalizeDist(@, sg)]
                  IN  IF RatIsZero(st) THEN [probs |-> g, raised |-> TRUE]
                      ELSE NormalizeFrom(
                              [g EXCEPT ![person].trait = NormalizeDist(@, st)],
                              person + 1)

normalize(probs) == NormalizeFrom(probs, 1)

(***************************************************************************)
(* heredity.py: the populations load_data can return.                      *)
(***************************************************************************)
RECURSIVE Ancestors(_, _, _)
Ancestors(ppl, person, depth) ==
    IF depth = 0 \/ person \notin DOMAIN ppl THEN {}
    ELSE LET ps == {ppl[person].mother, ppl[person].father} \ {None}
         IN  ps \cup UNION {Ancestors(ppl, q, depth - 1) : q \in ps}

\* mother and father both blank, or both names of the file; nobody is an
\* ancestor of themselves.
ValidPedigree(ppl) ==
    \A person \in DOMAIN ppl :
        /\ \/ ppl[person].mother = None /\ ppl[person].father = None
           \/ /\ ppl[person].mother \in DOMAIN ppl
              /\ ppl[person].father \in DOMAIN ppl
              /\ ppl[person].mother # ppl[person].father
        /\ person \notin Ancestors(ppl, person, Cardinality(DOMAIN ppl))

Person(m, f, t) == [mother |-> m, father |-> f, trait |-> t]

\* Populations of n people whose parent fields are drawn from `parents`.
PopulationsOver(n, parents, traits) ==
    {[i \in 1..n |-> Person(par[i][1], par[i][2], tr[i])] :
        par \in [1..n -> parents], tr \in [1..n -> traits]}

WellFormedParents(n) ==
    {<<None, None>>} \cup {<<m, f>> : m \in 1..n, f \in 1..n}

\* n + 1 names nobody of the file.
AnyParents(n) == (0..(n + 1)) \X (0..(n + 1))

\* The parent fields of the valid pedigrees of n people.
ValidParents(n) ==
    {par \in [1..n -> WellFormedParents(n)] :
        ValidPedigree([i \in 1..n |-> Person(par[i][1], par[i][2], "None")])}

ValidPopulations(n, traits) ==
    UNION {{[i \in 1..n |-> Person(par[i][1], par[i][2], tr[i])] :
                tr \in [1..n -> traits]} :
           par \in ValidParents(n)}

(***************************************************************************)
(* heredity.py: main, from the table of zeros to normalize.                *)
(***************************************************************************)
\* fails_evidence testing the trait's truthiness for `is not None`.
fails_evidence_truthy(ppl, ht) ==
    \E person \in DOMAIN ppl :
        /\ ppl[person].trait = "True"
        /\ person \notin ht

fails_evidence(ppl, ht) ==
    \E person \in DOMAIN ppl :
        /\ ppl[person].trait # "None"
        /\ (ppl[person].trait = "True") # (person \in ht)

TraitSets == powerset(names(people), rev)
HaveTrait == TraitSets[ti]
OneGene == powerset(names(people), rev)[oi]
TwoGeneSets == powerset(names(people) \ OneGene, rev)
TwoGenes == TwoGeneSets[wi]

Idle == "idle"

InitMain(populations) ==
    /\ people \in populations
    /\ rev \in BOOLEAN
    /\ probabilities = ZeroTable(people)
    /\ pc = "loop"
    /\ ti = 1 /\ oi = 1 /\ wi = 1
    /\ calls = <<>>
    /\ accumulated = Idle
    /\ one_gene = Idle /\ two_genes = Idle /\ have_trait = Idle
    /\ probability = Idle
    /\ pending = Idle /\ hyps0 = Idle /\ board = Idle

\* `continue`: the trait set contradicts a known trait.
Skip ==
    /\ pc = "loop"
    /\ ti <= Len(TraitSets)
    /\ fails_evidence(people, HaveTrait)
    /\ ti' = ti + 1
    /\ UNCHANGED <<people, rev, probabilities, pc, oi, wi, calls, accumulated,
                   one_gene, two_genes, have_trait, probability,
                   pending, hyps0, board>>

\* One pass of the innermost loop: joint_probability, then update.
Evaluate ==
    /\ pc = "loop"
    /\ ti <= Len(TraitSets)
    /\ ~fails_evidence(people, HaveTrait)
    /\ LET p == joint_probability(people, OneGene, TwoGenes, HaveTrait)
       IN  probabilities' = update(probabilities, OneGene, TwoGenes, HaveTrait, p)
    /\ calls' = Append(calls, <<HaveTrait, OneGene, TwoGenes>>)
    /\ IF wi < Len(TwoGeneSets)
       THEN wi' = wi + 1 /\ UNCHANGED <<oi, ti>>
       ELSE /\ wi' = 1
            /\ IF oi < Len(TraitSets)
               THEN oi' = oi + 1 /\ UNCHANGED ti
               ELSE oi' = 1 /\ ti' = ti + 1
    /\ UNCHANGED <<people, rev, pc, accumulated,
                   one_gene, two_genes, have_trait, probability,
                   pending, hyps0, board>>

\* The loops are over: normalize(probabilities).
Normalize ==
    /\ pc = "loop"
    /\ ti > Len(TraitSets)
    /\ accumulated' = probabilities
    /\ LET r == normalize(probabilities)
       IN  /\ probabilities' = r.probs
           /\ pc' = IF r.raised THEN "ZeroDivisionError" ELSE "done"
    /\ UNCHANGED <<people, rev, ti, oi, wi, calls,
                   one_gene, two_genes, have_trait, probability,
                   pending, hyps0, board>>

NextMain == Skip \/ Evaluate \/ Normalize

AllValidPopulations == UNION {ValidPopulations(n, Traits) : n \in 0..MaxPeople}

Init == InitMain(AllValidPopulations)

Spec == Init /\ [][NextMain]_vars

(***************************************************************************)
(* heredity.py: the families of the three tests, people numbered in the    *)
(* order the dictionaries list them.                                       *)
(***************************************************************************)
Founder == Person(None, None, "None")

\* person1, person2
simple_family_data == <<Founder, Founder>>

\* mother, father, child1, child2, child3
family_data ==
    <<Founder, Founder,
      Person(1, 2, "None"), Person(1, 2, "None"), Person(1, 2, "None")>>

\* grandmother, grandfather, mother, father, child
three_generation_data ==
    <<Founder, Founder, Person(1, 2, "None"), Founder, Person(3, 4, "None")>>

TestFamilies == {simple_family_data, family_data, three_generation_data}

(***************************************************************************)
(* joint_probability called on its own, as the tests call it.              *)
(***************************************************************************)
UntestedPopulations ==
    UNION {ValidPopulations(n, {"None"}) : n \in 0..MaxPeople}

InitJP ==
    /\ people \in UntestedPopulations \cup TestFamilies
    /\ one_gene \in SUBSET names(people)
    /\ two_genes \in SUBSET (names(people) \ one_gene)
    /\ have_trait \in SUBSET names(people)
    /\ probability = Idle
    /\ pc = "call"
    /\ rev = FALSE
    /\ probabilities = Idle
    /\ ti = 1 /\ oi = 1 /\ wi = 1
    /\ calls = <<>>
    /\ accumulated = Idle
    /\ pending = Idle /\ hyps0 = Idle /\ board = Idle

Call ==
    /\ pc = "call"
    /\ probability' = joint_probability(people, one_gene, two_genes, have_trait)
    /\ pc' = "returned"
    /\ UNCHANGED <<people, rev, probabilities, ti, oi, wi, calls, accumulated,
                   one_gene, two_genes, have_trait, pending, hyps0, board>>

NextJP == Call

SpecJP == InitJP /\ [][NextJP]_vars

(***************************************************************************)
(* update called for a set of hypotheses in any order.                     *)
(***************************************************************************)
\* The hypotheses main can hand to update, each with its joint probability.
FoldHypotheses(ppl) ==
    UNION {{[og |-> og, tg |-> tg, ht |-> ht,
             p |-> joint_probability(ppl, og, tg, ht)] :
                tg \in SUBSET (names(ppl) \ og), ht \in SUBSET names(ppl)} :
           og \in SUBSET names(ppl)}

\* The subsets of s with at most k elements.
RECURSIVE SetsUpTo(_, _)
SetsUpTo(s, k) ==
    IF k = 0 THEN {{}}
    ELSE LET smaller == SetsUpTo(s, k - 1)
         IN  smaller \cup {h \cup {x} : h \in smaller, x \in s}

InitFold ==
    /\ people = simple_family_data
    /\ probabilities = ZeroTable(people)
    /\ hyps0 \in SetsUpTo(FoldHypotheses(people), MaxHyps)
    /\ pending = hyps0
    /\ pc = "fold"
    /\ rev = FALSE
    /\ ti = 1 /\ oi = 1 /\ wi = 1
    /\ calls = <<>>
    /\ accumulated = Idle
    /\ one_gene = Idle /\ two_genes = Idle /\ have_trait = Idle
    /\ probability = Idle
    /\ board = Idle

Accumulate ==
    /\ pc = "fold"
    /\ \E h \in pending :
          /\ probabilities' = update(probabilities, h.og, h.tg, h.ht, h.p)
          /\ pending' = pending \ {h}
    /\ UNCHANGED <<people, rev, pc, ti, oi, wi, calls, accumulated,
                   one_gene, two_genes, have_trait, probability, hyps0, board>>

NextFold == Accumulate

SpecFold == InitFold /\ [][NextFold]_vars

(***************************************************************************)
(* main on files whose mother and father fields are not as load_data's     *)
(* docstring requires.                                                     *)
(***************************************************************************)
AnyPopulations(n) == PopulationsOver(n, AnyParents(n), Traits)

InitAny == \E n \in 1..MaxMalformed : InitMain(AnyPopulations(n))

SpecAny == InitAny /\ [][NextMain]_vars

(***************************************************************************)
(* tictactoe.py                                                            *)
(***************************************************************************)
X == "X"
O == "O"
EMPTY == "EMPTY"

initial_state == [i \in 0..2 |-> [j \in 0..2 |-> EMPTY]]

Count(b, mark) == Cardinality({c \in (0..2) \X (0..2) : b[c[1]][c[2]] = mark})

player(b) == IF Count(b, X) > Count(b, O) THEN O ELSE X

actions(b) == {c \in (0..2) \X (0..2) : b[c[1]][c[2]] = EMPTY}

result(b, action) ==
    [b EXCEPT ![action[1]][action[2]] = player(b)]

\* The rows, then the columns, then the two diagonals, as winner scans them.
Lines ==
    <<  <<<<0, 0>>, <<0, 1>>, <<0, 2>>>>,
        <<<<1, 0>>, <<1, 1>>, <<1, 2>>>>,
        <<<<2, 0>>, <<2, 1>>, <<2, 2>>>>,
        <<<<0, 0>>, <<1, 0>>, <<2, 0>>>>,
        <<<<0, 1>>, <<1, 1>>, <<2, 1>>>>,
        <<<<0, 2>>, <<1, 2>>, <<2, 2>>>>,
        <<<<0, 0>>, <<1, 1>>, <<2, 2>>>>,
        <<<<0, 2>>, <<1, 1>>, <<2, 0>>>>  >>

At(b, c) == b[c[1]][c[2]]

RECURSIVE WinnerFrom(_, _)
WinnerFrom(b, k) ==
    IF k > Len(Lines) THEN EMPTY
    ELSE LET l == Lines[k]
         IN  IF /\ At(b, l[1]) = At(b, l[2])
                /\ At(b, l[2]) = At(b, l[3])
                /\ At(b, l[1]) # EMPTY
             THEN At(b, l[1])
             ELSE WinnerFrom(b, k + 1)

winner(b) == WinnerFrom(b, 1)

terminal(b) == winner(b) # EMPTY \/ actions(b) = {}

utility(b) == IF winner(b) = X THEN 1 ELSE IF winner(b) = O THEN -1 ELSE 0

\* What a call of minimax ends in: the value None, a tuple, or a TypeError.
ReturnsNone == [kind |-> "None"]
ReturnsTuple(a, e) == [kind |-> "tuple", action |-> a, eval |-> e]
RaisesTypeError == [kind |-> "TypeError"]

\* minimax on a board that is not over enters its loop over actions(board),
\* and the first pass raises whatever the inner call does: a raise passes
\* through, None[0] raises, and a tuple's first entry is None, which max and
\* min cannot compare with a number.  `return None, max_eval` is what a loop
\* over no action would reach.  The first action is whichever the set gives.
RECURSIVE minimax(_)
minimax(b) ==
    IF terminal(b) THEN ReturnsNone
    ELSE IF actions(b) = {} THEN ReturnsTuple("None", "inf")
    ELSE LET action == CHOOSE a \in actions(b) : TRUE
             inner  == minimax(result(b, action))
         IN  CASE inner.kind = "TypeError" -> RaisesTypeError
               [] inner.kind = "None"      -> RaisesTypeError
               [] inner.kind = "tuple"     -> RaisesTypeError

InitGame ==
    /\ board = initial_state
    /\ pc = "play"
    /\ people = Idle /\ rev = FALSE /\ probabilities = Idle
    /\ ti = 1 /\ oi = 1 /\ wi = 1
    /\ calls = <<>>
    /\ accumulated = Idle
    /\ one_gene = Idle /\ two_genes = Idle /\ have_trait = Idle
    /\ probability = Idle
    /\ pending = Idle /\ hyps0 = Idle

\* The current player takes a free cell of a board that is not over.
Move ==
    /\ pc = "play"
    /\ ~terminal(board)
    /\ \E action \in actions(board) : board' = result(board, action)
    /\ UNCHANGED <<people, rev, probabilities, pc, ti, oi, wi, calls,
                   accumulated, one_gene, two_genes, have_trait, probability,
                   pending, hyps0>>

NextGame == Move

SpecGame == InitGame /\ [][NextGame]_vars

(***************************************************************************)
(* Definitions the properties below are stated with.                       *)
(***************************************************************************)
\* The sum of a distribution's values.
RECURSIVE TotalOver(_, _)
TotalOver(d, keys) ==
    IF keys = {} THEN Zero
    ELSE LET k == CHOOSE k \in keys : TRUE
         IN  RatAdd(d[k], TotalOver(d, keys \ {k}))

Total(d) == TotalOver(d, DOMAIN d)

\* new is old rescaled: new[a] : new[b] = old[a] : old[b] for all keys a, b.
SameProportions(new, old) ==
    \A a, b \in DOMAIN old :
        RatEq(RatMul(new[a], old[b]), RatMul(new[b], old[a]))

HasChild(ppl) == \E person \in DOMAIN ppl : ppl[person].mother # None

\* The trait sets that agree with every known trait.
AcceptedTraitSets(ppl) ==
    {ht \in SUBSET names(ppl) :
        \A person \in names(ppl) :
            /\ ppl[person].trait = "True" => person \in ht
            /\ ppl[person].trait = "False" => person \notin ht}

\* The triples (have_trait, one_gene, two_genes) main has to evaluate.
ExpectedCalls(ppl) ==
    UNION {{<<ht, og, tg>> : ht \in AcceptedTraitSets(ppl),
                             tg \in SUBSET (names(ppl) \ og)} :
           og \in SUBSET names(ppl)}

Evaluated == {calls[i] : i \in DOMAIN calls}

RECURSIVE Power(_, _)
Power(b, e) == IF e = 0 THEN 1 ELSE b * Power(b, e - 1)

RECURSIVE RatPower(_, _)
RatPower(a, e) == IF e = 0 THEN One ELSE RatMul(a, RatPower(a, e - 1))

(***************************************************************************)
(* C1.  After main's loops and normalize, every person's gene distribution *)
(* and trait distribution sum to 1, and each is the accumulated            *)
(* distribution rescaled; normalize never divides by zero.  For every      *)
(* population with a valid pedigree and every evidence.                    *)
(***************************************************************************)
C1_NormalizedSumsToOne ==
    /\ pc # "ZeroDivisionError"
    /\ pc = "done" =>
          \A person \in names(people) :
              /\ RatEq(Total(probabilities[person].gene), One)
              /\ RatEq(Total(probabilities[person].trait), One)
              /\ SameProportions(probabilities[person].gene,
                                 accumulated[person].gene)
              /\ SameProportions(probabilities[person].trait,
                                 accumulated[person].trait)

C1_Witness ==
    /\ pc = "done"
    /\ Cardinality(names(people)) = 3
    /\ HasChild(people)
    /\ \E a, b \in names(people) :
          people[a].trait = "True" /\ people[b].trait = "None"

(***************************************************************************)
(* C2.  main evaluates every triple (have_trait, one_gene, two_genes) with *)
(* one_gene and two_genes disjoint and have_trait agreeing with the known  *)
(* traits exactly once, and no other triple: 3^n gene hypotheses for each  *)
(* accepted trait set.                                                     *)
(***************************************************************************)
C2_EnumeratesEachOnce ==
    /\ Evaluated \subseteq ExpectedCalls(people)
    /\ Cardinality(Evaluated) = Len(calls)
    /\ pc = "done" =>
          /\ Evaluated = ExpectedCalls(people)
          /\ \A ht \in AcceptedTraitSets(people) :
                Cardinality({i \in DOMAIN calls : calls[i][1] = ht})
                    = Power(3, Cardinality(names(people)))

C2_Witness ==
    /\ pc = "done"
    /\ Cardinality(names(people)) = 3
    /\ Len(calls) = 2 * 27
    /\ \E a, b \in names(people) :
          people[a].trait = "False" /\ people[b].trait = "True"

(***************************************************************************)
(* C10.  A person whose trait is known ends with probability 1 on the      *)
(* observed value and 0 on the other, and the other value's bucket is 0    *)
(* all through the accumulation.                                           *)
(***************************************************************************)
C10_KnownTraitIsCertain ==
    \A person \in names(people) :
        people[person].trait # "None" =>
            LET observed == people[person].trait = "True"
            IN  /\ RatIsZero(probabilities[person].trait[~observed])
                /\ pc = "done" =>
                      RatEq(probabilities[person].trait[observed], One)

C10_Witness ==
    /\ pc = "done"
    /\ HasChild(people)
    /\ \E a, b, c \in names(people) :
          /\ people[a].trait = "True"
          /\ people[b].trait = "False"
          /\ people[c].trait = "None"

(***************************************************************************)
(* C3.  joint_probability returns the product over all persons of the      *)
(* gene-count probability times PROBS trait[gene count][trait value]: the  *)
(* prior for a founder; (1-m)(1-f), m(1-f)+(1-m)f, mf for a child, m and f *)
(* being 0.01, 0.5 or 0.99 for a parent with 0, 1 or 2 copies.  Stated in  *)
(* hundredths and ten-thousandths.                                         *)
(***************************************************************************)
Copies(person) ==
    IF person \in one_gene THEN 1 ELSE IF person \in two_genes THEN 2 ELSE 0

\* A parent's transmission probability, in hundredths.
TransmitPct(parent) ==
    IF Copies(parent) = 0 THEN 1 ELSE IF Copies(parent) = 1 THEN 50 ELSE 99

PersonTerm(person) ==
    LET c == Copies(person)
        m == TransmitPct(people[person].mother)
        f == TransmitPct(people[person].father)
        gene ==
            IF people[person].mother = None /\ people[person].father = None
            THEN PROBS.gene[c]
            ELSE IF c = 0 THEN Rat((100 - m) * (100 - f), 100 * 100)
            ELSE IF c = 1 THEN Rat(m * (100 - f) + (100 - m) * f, 100 * 100)
            ELSE Rat(m * f, 100 * 100)
    IN  RatMul(gene, PROBS.trait[c][(person \in have_trait)])

RECURSIVE ProductOfTerms(_)
ProductOfTerms(persons) ==
    IF persons = {} THEN One
    ELSE LET q == CHOOSE q \in persons : TRUE
         IN  RatMul(PersonTerm(q), ProductOfTerms(persons \ {q}))

NobodyHasAnything == one_gene = {} /\ two_genes = {} /\ have_trait = {}

TwoFoundersCase ==
    pc = "returned" /\ people = simple_family_data /\ NobodyHasAnything

\* x written to four decimal places is k / 10000.
RoundsTo(x, k) ==
    /\ ~RatLess(x, Rat(10 * k - 5, 10 * 100 * 100))
    /\ RatLess(x, Rat(10 * k + 5, 10 * 100 * 100))

Founders(ppl) == {q \in names(ppl) : ppl[q].mother = None}

TestCase == pc = "returned" /\ people \in TestFamilies /\ NobodyHasAnything

C7_ChildDistributionSumsToOne ==
    \A person \in names(people) :
        pc = "returned" /\ people[person].mother # None =>
            LET pm == Perc(GeneNumber(people[person].mother, one_gene, two_genes))
                pf == Perc(GeneNumber(people[person].father, one_gene, two_genes))
            IN  RatEq(RatAdd(ChildGeneProb(0, pm, pf),
                             RatAdd(ChildGeneProb(1, pm, pf),
                                    ChildGeneProb(2, pm, pf))),
                      One)

C7_Witness ==
    /\ pc = "returned"
    /\ \E person \in names(people) :
          /\ people[person].mother # None
          /\ Copies(people[person].mother) = 2
          /\ Copies(people[person].father) = 1

(***************************************************************************)
(* C8.  update adds p to each person's hypothesized gene-count bucket and  *)
(* trait bucket and to no other: after any hypotheses, in any order, a     *)
(* bucket holds the sum of the p of the hypotheses that put the person in  *)
(* it.                                                                     *)
(***************************************************************************)
RECURSIVE SumOfMasses(_)
SumOfMasses(hyps) ==
    IF hyps = {} THEN Zero
    ELSE LET h == CHOOSE h \in hyps : TRUE
         IN  RatAdd(h.p, SumOfMasses(hyps \ {h}))

Accumulated == hyps0 \ pending

C8_BucketsAreSums ==
    \A person \in names(people) :
        /\ \A g \in {0, 1, 2} :
              RatEq(probabilities[person].gene[g],
                    SumOfMasses({h \in Accumulated :
                                    (IF person \in h.og THEN 1
                                     ELSE IF person \in h.tg THEN 2 ELSE 0) = g}))
        /\ \A t \in BOOLEAN :
              RatEq(probabilities[person].trait[t],
                    SumOfMasses({h \in Accumulated : (person \in h.ht) = t}))

C8_Witness ==
    /\ pending = {}
    /\ \E h1, h2 \in hyps0 :
          /\ h1.p # h2.p
          /\ h1.og = {1} /\ h2.og = {1}
          /\ h1.ht = {2} /\ h2.ht = {1}

(***************************************************************************)
(* C6.  A population with a parent who is not in it, or with a person who  *)
(* has only one parent set, is rejected before any hypothesis is           *)
(* evaluated: no call of joint_probability or update, no distribution.     *)
(***************************************************************************)
Malformed(ppl) ==
    \E person \in names(ppl) :
        \/ ppl[person].mother # None /\ ppl[person].mother \notin names(ppl)
        \/ ppl[person].father # None /\ ppl[person].father \notin names(ppl)
        \/ (ppl[person].mother = None) # (ppl[person].father = None)

C6_MalformedIsRejected ==
    Malformed(people) => calls = <<>> /\ pc # "done"

(***************************************************************************)
(* C9.  On every board that is not over, minimax returns an optimal        *)
(* action of the player to move: a free cell whose resulting value under   *)
(* best play is the largest for X and the smallest for O.                  *)
(***************************************************************************)
RECURSIVE GameValue(_)
GameValue(b) ==
    IF terminal(b) THEN utility(b)
    ELSE LET values == {GameValue(result(b, a)) : a \in actions(b)}
         IN  IF player(b) = X THEN Max(values) ELSE Min(values)

C9_MinimaxIsOptimal ==
    ~terminal(board) =>
        LET r == minimax(board)
        IN  /\ r.kind = "tuple"
            /\ r.action \in actions(board)
            /\ GameValue(result(board, r.action)) = GameValue(board)

====
